---- MODULE Spec2Model ----
(***************************************************************************)
(* State-machine model of nnsight's AbstractModel (construction, modulize, *)
(* the run entry point __call__) and of the Mamba / MambaInterp adapters.  *)
(* Module paths and argument-node names are dotted strings in the source;  *)
(* here they are sequences of their dot-separated components.              *)
(***************************************************************************)
EXTENDS Integers, Sequences, FiniteSets, TLC

\* ------------------------------------------------------------------ bounds
MaxRuns == 2        \* runs of __call__ explored per model instance
MaxPasses == 2      \* forward passes the user function makes in one run
MaxModulize == 2    \* successful modulize calls explored
MaxSeqLen == 3      \* longest sequence given to MambaModuleInterp.forward
MaxForward == 2     \* forward passes of one MambaModuleInterp explored

\* ------------------------------------------------------- the modelled world
\* Module paths of the model as loaded (the root "", and two layers).
BasePaths == { <<>>, <<"l0">>, <<"l1">> }

\* Modules that modulize is called on, and the wrapper names it is given.
Modules == { <<"l0">> }
ModuleNames == { "w", "v" }

WrapperPath(module_path, module_name) == module_path \o <<module_name>>
WrapperPaths == { WrapperPath(m, n) : m \in Modules, n \in ModuleNames }

\* The two edits a modulize call creates.
WrapperModuleEdit(module_path, module_name) ==
    [kind |-> "wme", path |-> module_path, name |-> module_name]
GraphEdit(module_path, module_name) ==
    [kind |-> "ge", path |-> module_path, name |-> module_name]

\* Graph objects handed to runs, and the keys of their argument_node_names.
Graphs == { "g1", "g2" }
ArgumentNodeNames(g) ==
    IF g = "g1"
    THEN { <<"l0", "output", "0">>, <<"l0", "input", "0">>,
           <<"l1", "output", "0">>, <<"input", "0">> }
    ELSE { <<"l0", "w", "output", "0">>, <<"l0", "w", "input", "0">>,
           <<"l1", "output", "0">> }

\* Attributes replaced by a Patch.
ScanPatches == { "mamba_simple.rms_norm_fn", "mixer_seq_simple.rms_norm_fn",
                 "causal_conv1d_cuda.causal_conv1d_fwd", "selective_scan_cuda.fwd" }
MambaClassPatch == "mixer_seq_simple.Mamba"

VARIABLES
    cls,            \* class being constructed: "Mamba" or "MambaInterp"
    custom_model,   \* self.custom_model: built from a torch.nn.Module instance
    pc,             \* position of the single thread of control
    patched,        \* attributes currently holding a patched value
    dispatched,     \* self.dispatched
    local_loaded,   \* self.local_model is not None
    loadLocalCalls, \* number of _load_local calls so far
    loadMetaCalls,  \* number of _load_meta calls so far
    meta_model,     \* topology of self.meta_model: [wrap, rewired]
    local_model,    \* topology of self.local_model: [wrap, rewired]
    edits,          \* self.edits
    modulizeLog,    \* the successful modulize calls, in call order
    graph,          \* the graph argument of the current run
    run_edits,      \* the edits the current run's Editor holds
    edits_default,  \* the current run was called with edits=None
    increment_hook, \* the handle of the current run: "none", "live", "removed"
    incHooks,       \* increment hooks registered on local_model, per graph
    inputHooks,     \* input hooks on local_model: module path -> count
    outputHooks,    \* output hooks on local_model: module path -> count
    step,           \* each graph's step counter
    stepAtEntry,    \* each graph's step counter when the current run began
    passes,         \* full forward passes of local_model in the current run
    fnInvoked,      \* fn has been invoked in the current run
    exc,            \* the exception in flight in the current run, or "none"
    result,         \* how construction or the last run ended
    modulize_result,\* how the last modulize call ended
    runs,           \* number of runs started
    edits_arg,      \* the edits argument the current run was called with
    fpc,            \* position inside MambaModuleInterp.forward / SSM.forward
    xs,             \* the input sequence x[:, :, t], one value per token
    deltaA,         \* deltaA[:, :, t], the same for every token
    deltaB,         \* deltaB[:, :, t], the same for every token
    has_cache,      \* inference_params is not None
    seqlen_offset,  \* inference_params.seqlen_offset
    calls,          \* the submodule invocations of the current forward pass
    token_idx,      \* the loop variable of SSM.forward
    h,              \* the recurrent state h of SSM.forward
    ys,             \* the list ys of SSM.forward
    last_state,     \* last_state of SSM.forward (-1 is None)
    ssm_state,      \* the cached ssm_state (-1: never written)
    forwards        \* forward passes of the module completed

vars == << cls, custom_model, pc, patched, dispatched, local_loaded,
           loadLocalCalls, loadMetaCalls, meta_model, local_model, edits,
           modulizeLog, graph, run_edits, edits_default, increment_hook,
           incHooks, inputHooks, outputHooks, step, stepAtEntry, passes,
           fnInvoked, exc, result, modulize_result, runs, edits_arg,
           fpc, xs, deltaA, deltaB, has_cache, seqlen_offset, calls,
           token_idx, h, ys, last_state, ssm_state, forwards >>

ctorVars == << cls, custom_model >>
topoVars == << meta_model, edits, modulizeLog, modulize_result >>
hookVars == << incHooks, inputHooks, outputHooks >>
runVars == << graph, run_edits, edits_default, increment_hook, stepAtEntry,
              passes, fnInvoked, exc >>
loadVars == << dispatched, local_loaded, loadLocalCalls, loadMetaCalls >>
forwardVars == << fpc, xs, deltaA, deltaB, has_cache, seqlen_offset, calls,
                 token_idx, h, ys, last_state, ssm_state, forwards >>
modelVars == << ctorVars, pc, patched, loadVars, topoVars, local_model,
               hookVars, runVars, step, result, runs, edits_arg >>

\* --------------------------------------------------------------- topology
\* A model as loaded: no wrapper inserted, no forward rewired.
FreshModel == [wrap |-> [p \in WrapperPaths |-> 0], rewired |-> {}]

\* The module paths named_modules() yields for a model.
ModulePaths(model) == BasePaths \cup { p \in WrapperPaths : model.wrap[p] > 0 }

NoHooks == [p \in BasePaths \cup WrapperPaths |-> 0]
NoIncrementHooks == [g \in Graphs |-> 0]

\* The value passed for edits when the caller passes nothing.
EditsNone == [given |-> FALSE, list |-> << >>]

\* A MambaModuleInterp on which no forward pass has been started.
ForwardIdle ==
    /\ fpc = "idle"
    /\ xs = << >>
    /\ deltaA = 1
    /\ deltaB = 1
    /\ has_cache = FALSE
    /\ seqlen_offset = 0
    /\ calls = << >>
    /\ token_idx = 0
    /\ h = 0
    /\ ys = << >>
    /\ last_state = -1
    /\ ssm_state = -1
    /\ forwards = 0

\* ------------------------------------------------------------------ edits
\* Edit.edit raises AlreadyAppliedError when the edit's effect is already present.
EditApplied(e, model) ==
    IF e.kind = "wme"
    THEN model.wrap[WrapperPath(e.path, e.name)] > 0
    ELSE e \in model.rewired

\* Edit.edit: a WrapperModuleEdit inserts a wrapper module at path.name, a
\* GraphEdit replaces the forward of the module at path.
EditApply(e, model) ==
    IF e.kind = "wme"
    THEN [model EXCEPT !.wrap[WrapperPath(e.path, e.name)] = @ + 1]
    ELSE [model EXCEPT !.rewired = @ \cup {e}]

\* Edit.restore: the inverse of Edit.edit.
EditRestore(e, model) ==
    IF e.kind = "wme"
    THEN [model EXCEPT !.wrap[WrapperPath(e.path, e.name)] =
                           IF @ > 0 THEN @ - 1 ELSE 0]
    ELSE [model EXCEPT !.rewired = @ \ {e}]

RECURSIVE ApplyInOrder(_, _, _)
ApplyInOrder(es, i, model) ==
    IF i > Len(es) THEN [ok |-> TRUE, model |-> model]
    ELSE IF EditApplied(es[i], model) THEN [ok |-> FALSE, model |-> model]
    ELSE ApplyInOrder(es, i + 1, EditApply(es[i], model))

RECURSIVE RestoreInOrder(_, _, _)
RestoreInOrder(es, i, model) ==
    IF i > Len(es) THEN model
    ELSE RestoreInOrder(es, i + 1, EditRestore(es[i], model))

\* Editor.__enter__: applies the edits in list order. A failed application
\* leaves the model as it was on entry and propagates AlreadyAppliedError.
EditorEnter(es, model) ==
    LET r == ApplyInOrder(es, 1, model)
    IN  IF r.ok THEN r ELSE [ok |-> FALSE, model |-> model]

\* Editor.__exit__: reverts every edit of the list.
EditorExit(es, model) == RestoreInOrder(es, 1, model)

\* ----------------------------------------------------------- construction
Init ==
    /\ cls \in { "Mamba", "MambaInterp" }
    /\ custom_model \in BOOLEAN
    /\ pc = IF cls = "MambaInterp" THEN "new" ELSE "abstract_init"
    /\ patched = {}
    /\ dispatched = FALSE
    /\ local_loaded = FALSE
    /\ loadLocalCalls = 0
    /\ loadMetaCalls = 0
    /\ meta_model = FreshModel
    /\ local_model = FreshModel
    /\ edits = << >>
    /\ modulizeLog = << >>
    /\ graph = "g1"
    /\ run_edits = << >>
    /\ edits_default = TRUE
    /\ increment_hook = "none"
    /\ incHooks = NoIncrementHooks
    /\ inputHooks = NoHooks
    /\ outputHooks = NoHooks
    /\ step = [g \in Graphs |-> 0]
    /\ stepAtEntry = [g \in Graphs |-> 0]
    /\ passes = 0
    /\ fnInvoked = FALSE
    /\ exc = "none"
    /\ result = "none"
    /\ modulize_result = "none"
    /\ runs = 0
    /\ edits_arg = EditsNone
    /\ ForwardIdle

\* MambaInterp.__init__: the Patcher for mixer_seq_simple.Mamba is entered
\* and AbstractModel.__init__ is called; the Patcher is never exited.
MambaInterpInit ==
    /\ pc = "new"
    /\ cls = "MambaInterp"
    /\ patched' = patched \cup { MambaClassPatch }
    /\ pc' = "abstract_init"
    /\ UNCHANGED << ctorVars, loadVars, topoVars, local_model, hookVars,
                    runVars, step, result, runs >>

\* An __init__ that forgets to mark a model built from an instance as dispatched.
AbstractModelInitNotDispatched ==
    /\ pc = "abstract_init"
    /\ dispatched' = FALSE
    /\ local_loaded' = custom_model
    /\ edits' = << >>
    /\ meta_model' = FreshModel
    /\ loadMetaCalls' = IF custom_model THEN loadMetaCalls ELSE loadMetaCalls + 1
    /\ pc' = "run_meta"
    /\ UNCHANGED << ctorVars, patched, loadLocalCalls, modulizeLog,
                    modulize_result, local_model, hookVars, runVars, step,
                    result, runs >>

\* AbstractModel.__init__ up to the meta model being wrapped, _load_meta having
\* returned (or the instance having been deep-copied).
AbstractModelInit ==
    /\ pc = "abstract_init"
    /\ dispatched' = custom_model
    /\ local_loaded' = custom_model
    /\ edits' = << >>
    /\ meta_model' = FreshModel
    /\ loadMetaCalls' = IF custom_model THEN loadMetaCalls ELSE loadMetaCalls + 1
    /\ pc' = "run_meta"
    /\ UNCHANGED << ctorVars, patched, loadLocalCalls, modulizeLog,
                    modulize_result, local_model, hookVars, runVars, step,
                    result, runs >>

\* AbstractModel.__init__ when _load_meta raises (config or tokenizer cannot
\* be loaded): construction ends with the error.
AbstractModelInitRaises ==
    /\ pc = "abstract_init"
    /\ ~custom_model
    /\ dispatched' = FALSE
    /\ local_loaded' = FALSE
    /\ edits' = << >>
    /\ loadMetaCalls' = loadMetaCalls + 1
    /\ pc' = "ctor_failed"
    /\ result' = "error"
    /\ UNCHANGED << ctorVars, patched, loadLocalCalls, meta_model, modulizeLog,
                    modulize_result, local_model, hookVars, runVars, step, runs >>

\* Mamba._scan, entering the Patcher: the four kernel patches are installed.
ScanEnter ==
    /\ pc = "run_meta"
    /\ patched' = patched \cup ScanPatches
    /\ pc' = "scan"
    /\ UNCHANGED << ctorVars, loadVars, topoVars, local_model, hookVars,
                    runVars, step, result, runs >>

\* Mamba._scan, the meta run returns: the Patcher restores its patches.
ScanReturn ==
    /\ pc = "scan"
    /\ patched' = patched \ ScanPatches
    /\ pc' = "idle"
    /\ result' = "constructed"
    /\ UNCHANGED << ctorVars, loadVars, topoVars, local_model, hookVars,
                    runVars, step, runs >>

\* Mamba._scan, the meta run raises: the Patcher restores its patches and
\* construction ends with the error.
ScanRaises ==
    /\ pc = "scan"
    /\ patched' = patched \ ScanPatches
    /\ pc' = "ctor_failed"
    /\ result' = "error"
    /\ UNCHANGED << ctorVars, loadVars, topoVars, local_model, hookVars,
                    runVars, step, runs >>

\* ---------------------------------------------------------------- modulize
\* A buggy modulize that records the WrapperModuleEdit before carrying it out.
ModulizeAppendsFirst(module, module_name) ==
    LET wme == WrapperModuleEdit(module, module_name)
        ge == GraphEdit(module, module_name)
    IN  /\ pc = "idle"
        /\ Len(modulizeLog) < MaxModulize
        /\ Len(edits) <= 2 * MaxModulize
        /\ IF EditApplied(wme, meta_model)
           THEN /\ modulize_result' = "AlreadyAppliedError"
                /\ edits' = Append(edits, wme)
                /\ UNCHANGED << meta_model, modulizeLog >>
           ELSE /\ meta_model' = EditApply(ge, EditApply(wme, meta_model))
                /\ edits' = Append(Append(edits, wme), ge)
                /\ modulizeLog' = Append(modulizeLog, << module, module_name >>)
                /\ modulize_result' = "ok"
        /\ UNCHANGED << ctorVars, pc, patched, loadVars, local_model, hookVars,
                        runVars, step, result, runs >>

\* A buggy modulize that forgets to record the GraphEdit.
ModulizeDropsGraphEdit(module, module_name) ==
    LET wme == WrapperModuleEdit(module, module_name)
        ge == GraphEdit(module, module_name)
    IN  /\ pc = "idle"
        /\ Len(modulizeLog) < MaxModulize
        /\ IF EditApplied(wme, meta_model)
           THEN /\ modulize_result' = "AlreadyAppliedError"
                /\ UNCHANGED << meta_model, edits, modulizeLog >>
           ELSE /\ meta_model' = EditApply(ge, EditApply(wme, meta_model))
                /\ edits' = Append(edits, wme)
                /\ modulizeLog' = Append(modulizeLog, << module, module_name >>)
                /\ modulize_result' = "ok"
        /\ UNCHANGED << ctorVars, pc, patched, loadVars, local_model, hookVars,
                        runVars, step, result, runs >>

\* AbstractModel.modulize: wme.edit(meta_model), ge.edit(meta_model), then
\* both edits are appended to self.edits. An edit that raises ends the call
\* at that line.
Modulize(module, module_name) ==
    LET wme == WrapperModuleEdit(module, module_name)
        ge == GraphEdit(module, module_name)
    IN  /\ pc = "idle"
        /\ Len(modulizeLog) < MaxModulize
        /\ IF EditApplied(wme, meta_model)
           THEN /\ modulize_result' = "AlreadyAppliedError"
                /\ UNCHANGED << meta_model, edits, modulizeLog >>
           ELSE IF EditApplied(ge, EditApply(wme, meta_model))
           THEN /\ meta_model' = EditApply(wme, meta_model)
                /\ modulize_result' = "AlreadyAppliedError"
                /\ UNCHANGED << edits, modulizeLog >>
           ELSE /\ meta_model' = EditApply(ge, EditApply(wme, meta_model))
                /\ edits' = Append(Append(edits, wme), ge)
                /\ modulizeLog' = Append(modulizeLog, << module, module_name >>)
                /\ modulize_result' = "ok"
        /\ UNCHANGED << ctorVars, pc, patched, loadVars, local_model, hookVars,
                        runVars, step, result, runs >>

\* --------------------------------------------------------------------- run
\* The values a caller passes as the edits argument: None, or a list built
\* from edit objects of the model.
EditsArguments ==
    LET own == { edits[i] : i \in DOMAIN edits }
    IN  { [given |-> FALSE, list |-> << >>], [given |-> TRUE, list |-> << >>] }
        \cup { [given |-> TRUE, list |-> << e >>] : e \in own }
        \cup { [given |-> TRUE, list |-> << e, e >>] : e \in own }

\* ".".join(name.split(".")[:-1]): a slip that drops one component only.
ModulePathOfDropsOne(name) ==
    IF Len(name) <= 1 THEN << >> ELSE SubSeq(name, 1, Len(name) - 1)

\* ".".join(name.split(".")[:-2])
ModulePathOf(name) ==
    IF Len(name) <= 2 THEN << >> ELSE SubSeq(name, 1, Len(name) - 2)

\* set([... for name in graph.argument_node_names.keys()])
HookedModules(g) == { ModulePathOf(name) : name \in ArgumentNodeNames(g) }

\* The module paths graph.compile needs the concrete model to have.
RequiredModulePaths(g) ==
    IF g = "g1" THEN { << >>, <<"l0">>, <<"l1">> }
    ELSE { <<"l0", "w">>, <<"l1">> }

\* A __call__ that merges an explicit edits argument with self.edits.
RunBeginMergesEdits(g, arg) ==
    /\ pc = "idle"
    /\ runs < MaxRuns
    /\ runs' = runs + 1
    /\ graph' = g
    /\ edits_default' = ~arg.given
    /\ run_edits' = IF arg.given THEN edits \o arg.list ELSE edits
    /\ IF ~dispatched
       THEN /\ local_model' = FreshModel
            /\ local_loaded' = TRUE
            /\ loadLocalCalls' = loadLocalCalls + 1
            /\ incHooks' = NoIncrementHooks
            /\ inputHooks' = NoHooks
            /\ outputHooks' = NoHooks
       ELSE UNCHANGED << local_model, local_loaded, loadLocalCalls, hookVars >>
    /\ increment_hook' = "none"
    /\ stepAtEntry' = step
    /\ passes' = 0
    /\ fnInvoked' = FALSE
    /\ exc' = "none"
    /\ pc' = "editor_enter"
    /\ UNCHANGED << ctorVars, patched, dispatched, loadMetaCalls, topoVars,
                    step, result >>

\* __call__, entry: edits defaults to self.edits, and the local model is
\* loaded when self.dispatched is false (a newly loaded model carries no hook
\* and no edit). self.dispatched is not assigned here.
RunBegin(g, arg) ==
    /\ pc = "idle"
    /\ runs < MaxRuns
    /\ runs' = runs + 1
    /\ graph' = g
    /\ edits_default' = ~arg.given
    /\ run_edits' = IF arg.given THEN arg.list ELSE edits
    /\ IF ~dispatched
       THEN /\ local_model' = FreshModel
            /\ local_loaded' = TRUE
            /\ loadLocalCalls' = loadLocalCalls + 1
            /\ incHooks' = NoIncrementHooks
            /\ inputHooks' = NoHooks
            /\ outputHooks' = NoHooks
       ELSE UNCHANGED << local_model, local_loaded, loadLocalCalls, hookVars >>
    /\ increment_hook' = "none"
    /\ stepAtEntry' = step
    /\ passes' = 0
    /\ fnInvoked' = FALSE
    /\ exc' = "none"
    /\ pc' = "editor_enter"
    /\ UNCHANGED << ctorVars, patched, dispatched, loadMetaCalls, topoVars,
                    step, result >>

\* __call__ is left: the increment_hook handle goes out of scope and the
\* run's bookkeeping ends. The arguments and the outcome of the call stay
\* on record until the next call.
ReturnFromCall ==
    /\ increment_hook' = "none"
    /\ stepAtEntry' = step
    /\ passes' = 0
    /\ UNCHANGED << graph, run_edits, edits_default, fnInvoked, exc >>

\* with Editor(self, edits): entry. When an edit cannot be applied the with
\* body is not entered and the error leaves __call__.
EditorEnterStep ==
    /\ pc = "editor_enter"
    /\ LET r == EditorEnter(run_edits, local_model)
       IN  /\ local_model' = r.model
           /\ IF r.ok
              THEN /\ pc' = "compile"
                   /\ UNCHANGED << result, runVars >>
              ELSE /\ pc' = "idle"
                   /\ result' = "AlreadyAppliedError"
                   /\ ReturnFromCall
    /\ UNCHANGED << ctorVars, patched, loadVars, topoVars, hookVars, step, runs >>

\* graph.compile(self.local_model) returns.
Compile ==
    /\ pc = "compile"
    /\ RequiredModulePaths(graph) \subseteq ModulePaths(local_model)
    /\ pc' = "register_increment_hook"
    /\ UNCHANGED << ctorVars, patched, loadVars, topoVars, local_model,
                    hookVars, runVars, step, result, runs >>

\* A __call__ in which an error raised by graph.compile leaves the function
\* without the Editor being exited.
CompileRaisesPastEditor ==
    /\ pc = "compile"
    /\ ~(RequiredModulePaths(graph) \subseteq ModulePaths(local_model))
    /\ result' = "UnresolvedDependencyError"
    /\ pc' = "idle"
    /\ ReturnFromCall
    /\ UNCHANGED << ctorVars, patched, loadVars, topoVars, local_model,
                    hookVars, step, runs >>

\* A __call__ that registers the increment hook before it compiles the graph.
CompileRaisesAfterHookRegistered ==
    /\ pc = "compile"
    /\ ~(RequiredModulePaths(graph) \subseteq ModulePaths(local_model))
    /\ incHooks' = [incHooks EXCEPT ![graph] = @ + 1]
    /\ increment_hook' = "live"
    /\ exc' = "UnresolvedDependencyError"
    /\ pc' = "editor_exit"
    /\ UNCHANGED << ctorVars, patched, loadVars, topoVars, local_model,
                    inputHooks, outputHooks, graph, run_edits, edits_default,
                    stepAtEntry, passes, fnInvoked, step, result, runs >>

\* graph.compile(self.local_model) raises UnresolvedDependencyError: control
\* leaves the with body for Editor.__exit__.
CompileRaises ==
    /\ pc = "compile"
    /\ ~(RequiredModulePaths(graph) \subseteq ModulePaths(local_model))
    /\ exc' = "UnresolvedDependencyError"
    /\ pc' = "editor_exit"
    /\ UNCHANGED << ctorVars, patched, loadVars, topoVars, local_model,
                    hookVars, graph, run_edits, edits_default, increment_hook,
                    stepAtEntry, passes, fnInvoked, step, result, runs >>

\* increment_hook = self._register_increment_hook(lambda ...: graph.increment())
RegisterIncrementHook ==
    /\ pc = "register_increment_hook"
    /\ incHooks' = [incHooks EXCEPT ![graph] = @ + 1]
    /\ increment_hook' = "live"
    /\ pc' = "hook_model_enter"
    /\ UNCHANGED << ctorVars, patched, loadVars, topoVars, local_model,
                    inputHooks, outputHooks, graph, run_edits, edits_default,
                    stepAtEntry, passes, fnInvoked, exc, step, result, runs >>

\* with HookModel(self.local_model, list(modules), input_hook, output_hook):
\* entry. One input and one output hook per listed module path.
HookModelEnter ==
    /\ pc = "hook_model_enter"
    /\ LET modules == HookedModules(graph)
       IN  /\ inputHooks' = [p \in DOMAIN inputHooks |->
                                inputHooks[p] + IF p \in modules THEN 1 ELSE 0]
           /\ outputHooks' = [p \in DOMAIN outputHooks |->
                                outputHooks[p] + IF p \in modules THEN 1 ELSE 0]
    /\ pc' = "fn"
    /\ UNCHANGED << ctorVars, patched, loadVars, topoVars, local_model,
                    incHooks, runVars, step, result, runs >>

\* fn(inputs, ...) runs one full forward pass of the local model: every
\* increment hook registered on it fires once.
FnForwardPass ==
    /\ pc = "fn"
    /\ passes < MaxPasses
    /\ fnInvoked' = TRUE
    /\ passes' = passes + 1
    /\ step' = [g \in Graphs |-> step[g] + incHooks[g]]
    /\ UNCHANGED << ctorVars, pc, patched, loadVars, topoVars, local_model,
                    hookVars, graph, run_edits, edits_default, increment_hook,
                    stepAtEntry, exc, result, runs >>

\* fn returns.
FnReturn ==
    /\ pc = "fn"
    /\ fnInvoked' = TRUE
    /\ pc' = "hook_model_exit"
    /\ UNCHANGED << ctorVars, patched, loadVars, topoVars, local_model,
                    hookVars, graph, run_edits, edits_default, increment_hook,
                    stepAtEntry, passes, exc, step, result, runs >>

\* fn raises (a failed forward pass or a failed node evaluation in a hook).
FnRaises ==
    /\ pc = "fn"
    /\ fnInvoked' = TRUE
    /\ exc' = "RunError"
    /\ pc' = "hook_model_exit"
    /\ UNCHANGED << ctorVars, patched, loadVars, topoVars, local_model,
                    hookVars, graph, run_edits, edits_default, increment_hook,
                    stepAtEntry, passes, step, result, runs >>

\* HookModel.__exit__: the input and output hooks it installed are removed.
\* On the normal path line 177 is next; an exception skips it.
HookModelExit ==
    /\ pc = "hook_model_exit"
    /\ LET modules == HookedModules(graph)
       IN  /\ inputHooks' = [p \in DOMAIN inputHooks |->
                                inputHooks[p] - IF p \in modules THEN 1 ELSE 0]
           /\ outputHooks' = [p \in DOMAIN outputHooks |->
                                outputHooks[p] - IF p \in modules THEN 1 ELSE 0]
    /\ pc' = IF exc = "none" THEN "increment_hook_remove" ELSE "editor_exit"
    /\ UNCHANGED << ctorVars, patched, loadVars, topoVars, local_model,
                    incHooks, runVars, step, result, runs >>

\* increment_hook.remove()
IncrementHookRemove ==
    /\ pc = "increment_hook_remove"
    /\ incHooks' = [incHooks EXCEPT ![graph] = @ - 1]
    /\ increment_hook' = "removed"
    /\ pc' = "editor_exit"
    /\ UNCHANGED << ctorVars, patched, loadVars, topoVars, local_model,
                    inputHooks, outputHooks, graph, run_edits, edits_default,
                    stepAtEntry, passes, fnInvoked, exc, step, result, runs >>

\* Editor.__exit__, then __call__ returns output or the exception propagates.
EditorExitStep ==
    /\ pc = "editor_exit"
    /\ local_model' = EditorExit(run_edits, local_model)
    /\ result' = IF exc = "none" THEN "ok" ELSE exc
    /\ pc' = "idle"
    /\ ReturnFromCall
    /\ UNCHANGED << ctorVars, patched, loadVars, topoVars, hookVars, step, runs >>

\* ----------------------------------------------------------- specification
\* A step of the AbstractModel machine: no forward pass of a standalone
\* MambaModuleInterp is in progress, and the recorded edits argument stays.
NoForward == UNCHANGED << edits_arg, forwardVars >>

Next ==
    \/ MambaInterpInit /\ NoForward
    \/ AbstractModelInit /\ NoForward
    \/ AbstractModelInitRaises /\ NoForward
    \/ ScanEnter /\ NoForward
    \/ ScanReturn /\ NoForward
    \/ ScanRaises /\ NoForward
    \/ \E m \in Modules, n \in ModuleNames : Modulize(m, n) /\ NoForward
    \/ \E g \in Graphs, arg \in EditsArguments :
           RunBegin(g, arg) /\ edits_arg' = arg /\ UNCHANGED forwardVars
    \/ EditorEnterStep /\ NoForward
    \/ Compile /\ NoForward
    \/ CompileRaises /\ NoForward
    \/ RegisterIncrementHook /\ NoForward
    \/ HookModelEnter /\ NoForward
    \/ FnForwardPass /\ NoForward
    \/ FnReturn /\ NoForward
    \/ FnRaises /\ NoForward
    \/ HookModelExit /\ NoForward
    \/ IncrementHookRemove /\ NoForward
    \/ EditorExitStep /\ NoForward

Spec == Init /\ [][Next]_vars

\* ------------------------------------------------- MambaModuleInterp.forward
\* The numeric kernels are integer stand-ins that keep the data flow of the
\* source (real-valued case): every argument the source uses is used.

\* SSM.Hx.forward: deltaA * h + einsum(deltaB, x)
Hx(dA, dB, x, hh) == dA * hh + dB * x

\* SSM.Yh.forward: einsum(h, C)
Yh(hh, C) == hh * C

\* C[:, :, token_idx] of the pass (the projection of x is a stand-in).
COf(x) == x + 1

\* The input sequences of a pass: one value per token, seqlen >= 1.
InputSequences ==
    UNION { [1 .. n -> { 1, 2 }] : n \in 1 .. MaxSeqLen }

SubmoduleCall(m, k, in, out) == [m |-> m, k |-> k, in |-> in, out |-> out]

\* forward is entered: with inference_params given and seqlen_offset > 0 the
\* single-step path is taken, otherwise the full path.
ForwardBegin(x, cache, offset, dA, dB) ==
    /\ fpc = "idle"
    /\ forwards < MaxForward
    /\ xs' = x
    /\ has_cache' = cache
    /\ seqlen_offset' = offset
    /\ deltaA' = dA
    /\ deltaB' = dB
    /\ calls' = << >>
    /\ token_idx' = 0
    /\ h' = 0
    /\ ys' = << >>
    /\ last_state' = -1
    /\ fpc' = IF cache /\ offset > 0 THEN "step" ELSE "dt"
    /\ UNCHANGED << ssm_state, forwards >>

\* out, _, _ = self.step(hidden_states, conv_state, ssm_state); return out.
\* The states are updated in place by step, no submodule of the full path
\* is called.
ForwardStep ==
    /\ fpc = "step"
    /\ ssm_state' = Hx(deltaA, deltaB, xs[1], IF ssm_state < 0 THEN 0 ELSE ssm_state)
    /\ forwards' = forwards + 1
    /\ fpc' = "idle"
    /\ UNCHANGED << xs, deltaA, deltaB, has_cache, seqlen_offset, calls,
                    token_idx, h, ys, last_state >>

\* dt = self.dt(dt)
CallDt ==
    /\ fpc = "dt"
    /\ calls' = Append(calls, SubmoduleCall("dt", 0, 0, 0))
    /\ fpc' = "B"
    /\ UNCHANGED << xs, deltaA, deltaB, has_cache, seqlen_offset, token_idx,
                    h, ys, last_state, ssm_state, forwards >>

\* B = self.B(B)
CallB ==
    /\ fpc = "B"
    /\ calls' = Append(calls, SubmoduleCall("B", 0, 0, 0))
    /\ fpc' = "C"
    /\ UNCHANGED << xs, deltaA, deltaB, has_cache, seqlen_offset, token_idx,
                    h, ys, last_state, ssm_state, forwards >>

\* C = self.C(C)
CallC ==
    /\ fpc = "C"
    /\ calls' = Append(calls, SubmoduleCall("C", 0, 0, 0))
    /\ fpc' = "ssm"
    /\ UNCHANGED << xs, deltaA, deltaB, has_cache, seqlen_offset, token_idx,
                    h, ys, last_state, ssm_state, forwards >>

\* y = self.ssm(...): SSM.forward up to its loop. h = A.new_zeros(...),
\* last_state = None, ys = [].
SsmBegin ==
    /\ fpc = "ssm"
    /\ calls' = Append(calls, SubmoduleCall("ssm", 0, 0, 0))
    /\ h' = 0
    /\ last_state' = -1
    /\ ys' = << >>
    /\ token_idx' = 0
    /\ fpc' = IF Len(xs) > 0 THEN "hx" ELSE "ssm_return"
    /\ UNCHANGED << xs, deltaA, deltaB, has_cache, seqlen_offset, ssm_state,
                    forwards >>

\* A loop that hands hx the initial zero state at every token.
CallHxFromZero ==
    /\ fpc = "hx"
    /\ LET out == Hx(deltaA, deltaB, xs[token_idx + 1], 0)
       IN  /\ calls' = Append(calls, SubmoduleCall("hx", token_idx, 0, out))
           /\ h' = out
    /\ fpc' = "yh"
    /\ UNCHANGED << xs, deltaA, deltaB, has_cache, seqlen_offset, token_idx,
                    ys, last_state, ssm_state, forwards >>

\* h = self.hx(deltaA[:, :, token_idx], deltaB[:, :, token_idx], x[:, :, token_idx], h)
CallHx ==
    /\ fpc = "hx"
    /\ LET out == Hx(deltaA, deltaB, xs[token_idx + 1], h)
       IN  /\ calls' = Append(calls, SubmoduleCall("hx", token_idx, h, out))
           /\ h' = out
    /\ fpc' = "yh"
    /\ UNCHANGED << xs, deltaA, deltaB, has_cache, seqlen_offset, token_idx,
                    ys, last_state, ssm_state, forwards >>

\* y = self.yh(h, C[:, :, token_idx]); last_state = h at the last token;
\* ys.append(y); the loop goes on or ends.
CallYh ==
    /\ fpc = "yh"
    /\ LET y == Yh(h, COf(xs[token_idx + 1]))
       IN  /\ calls' = Append(calls, SubmoduleCall("yh", token_idx, h, y))
           /\ ys' = Append(ys, y)
    /\ last_state' = IF token_idx = Len(xs) - 1 THEN h ELSE last_state
    /\ token_idx' = token_idx + 1
    /\ fpc' = IF token_idx + 1 < Len(xs) THEN "hx" ELSE "ssm_return"
    /\ UNCHANGED << xs, deltaA, deltaB, has_cache, seqlen_offset, h,
                    ssm_state, forwards >>

\* SSM.forward returns out, or (out, last_state) when return_last_state, and
\* forward copies last_state into ssm_state when there is one, then returns.
SsmReturn ==
    /\ fpc = "ssm_return"
    /\ ssm_state' = IF has_cache THEN last_state ELSE ssm_state
    /\ forwards' = forwards + 1
    /\ fpc' = "idle"
    /\ UNCHANGED << xs, deltaA, deltaB, has_cache, seqlen_offset, calls,
                    token_idx, h, ys, last_state >>

\* A MambaModuleInterp of a constructed MambaInterp model, before any run.
ForwardInit ==
    /\ cls = "MambaInterp"
    /\ custom_model = FALSE
    /\ pc = "idle"
    /\ patched = { MambaClassPatch }
    /\ dispatched = FALSE
    /\ local_loaded = FALSE
    /\ loadLocalCalls = 0
    /\ loadMetaCalls = 1
    /\ meta_model = FreshModel
    /\ local_model = FreshModel
    /\ edits = << >>
    /\ modulizeLog = << >>
    /\ graph = "g1"
    /\ run_edits = << >>
    /\ edits_default = TRUE
    /\ increment_hook = "none"
    /\ incHooks = NoIncrementHooks
    /\ inputHooks = NoHooks
    /\ outputHooks = NoHooks
    /\ step = [g \in Graphs |-> 0]
    /\ stepAtEntry = [g \in Graphs |-> 0]
    /\ passes = 0
    /\ fnInvoked = FALSE
    /\ exc = "none"
    /\ result = "constructed"
    /\ modulize_result = "none"
    /\ runs = 0
    /\ edits_arg = EditsNone
    /\ ForwardIdle

ForwardNext ==
    \/ \E x \in InputSequences, cache \in BOOLEAN, offset \in 0 .. 1,
          dA \in 1 .. 2, dB \in { 1 } :
           /\ cache \/ offset = 0
           /\ offset > 0 => Len(x) = 1
           /\ ForwardBegin(x, cache, offset, dA, dB)
           /\ UNCHANGED modelVars
    \/ ForwardStep /\ UNCHANGED modelVars
    \/ CallDt /\ UNCHANGED modelVars
    \/ CallB /\ UNCHANGED modelVars
    \/ CallC /\ UNCHANGED modelVars
    \/ SsmBegin /\ UNCHANGED modelVars
    \/ CallHx /\ UNCHANGED modelVars
    \/ CallYh /\ UNCHANGED modelVars
    \/ SsmReturn /\ UNCHANGED modelVars

ForwardSpec == ForwardInit /\ [][ForwardNext]_vars

\* ------------------------------------------------------------ properties
InConstruction == pc \in { "new", "abstract_init", "run_meta", "scan" }

\* The positions inside the body of "with Editor(self, edits)".
InEditorScope ==
    pc \in { "compile", "register_increment_hook", "hook_model_enter", "fn",
             "hook_model_exit", "increment_hook_remove", "editor_exit" }

NoHookOnLocalModel ==
    /\ \A g \in Graphs : incHooks[g] = 0
    /\ \A p \in DOMAIN inputHooks : inputHooks[p] = 0
    /\ \A p \in DOMAIN outputHooks : outputHooks[p] = 0

\* C1: whenever __call__ has exited, normally or by an exception, no input,
\* output or increment hook remains on the local model.
C1_NoHookAfterCall == pc = "idle" => NoHookOnLocalModel

\* C2: whenever __call__ has exited (normally, or by an exception raised in
\* graph.compile or fn) every edit has been reverted: the local model has
\* the module paths and forwards it was loaded with.
C2_EditsRevertedAfterCall ==
    (pc = "idle" /\ local_loaded) =>
        /\ local_model = FreshModel
        /\ ModulePaths(local_model) = BasePaths

\* C2 witness: a run that applied a non-empty edit list has ended with an
\* exception raised by fn, and the local model is as loaded.
C2_Witness ==
    /\ pc = "idle"
    /\ result = "RunError"
    /\ Len(run_edits) > 0
    /\ local_model = FreshModel

\* C3: during a run the step counter of the run's graph has advanced by
\* exactly the number of full forward passes of the run, and the step counter
\* of every other graph has not moved.
C3_StepOncePerPass ==
    InEditorScope =>
        /\ step[graph] = stepAtEntry[graph] + passes
        /\ \A g \in Graphs \ {graph} : step[g] = stepAtEntry[g]

\* C4: for a model built from a repo id, _load_local is not called before the
\* first run and has been called exactly once from the first run on.
C4_LoadLocalOnce ==
    ~custom_model =>
        /\ runs = 0 => loadLocalCalls = 0
        /\ runs >= 1 => loadLocalCalls = 1

\* C5: when graph.compile raises, fn has not been and is not invoked, the run
\* has registered no increment hook and installed no input or output hook,
\* no forward pass has run, and the error is what __call__ ends with.
C5_CompileFailsBeforeAnyWork ==
    exc = "UnresolvedDependencyError" =>
        /\ pc \in { "editor_exit", "idle" }
        /\ ~fnInvoked
        /\ increment_hook = "none"
        /\ passes = 0
        /\ step = stepAtEntry
        /\ \A p \in DOMAIN inputHooks : inputHooks[p] = 0 /\ outputHooks[p] = 0
        /\ pc = "idle" => result = "UnresolvedDependencyError"

\* C5 witness: a run has ended with the UnresolvedDependencyError of compile.
C5_Witness ==
    /\ pc = "idle"
    /\ exc = "UnresolvedDependencyError"
    /\ result = "UnresolvedDependencyError"

\* A name without its last two components.
AllButLastTwo(name) == [i \in 1 .. (Len(name) - 2) |-> name[i]]

\* C6: while fn runs, a module path carries exactly one input hook and one
\* output hook if it is a key of argument_node_names without its last two
\* components, and no hook otherwise.
C6_HooksExactlyOnPlannedPaths ==
    pc = "fn" =>
        LET planned == { AllButLastTwo(k) : k \in ArgumentNodeNames(graph) }
        IN  /\ planned \subseteq DOMAIN inputHooks
            /\ \A p \in DOMAIN inputHooks :
                   /\ inputHooks[p] = IF p \in planned THEN 1 ELSE 0
                   /\ outputHooks[p] = IF p \in planned THEN 1 ELSE 0

\* C6 witness: fn runs with a graph in which two keys name the same module
\* and a two-component key names the root module.
C6_Witness ==
    /\ pc = "fn"
    /\ graph = "g1"
    /\ inputHooks[<<"l0">>] = 1
    /\ outputHooks[<< >>] = 1

\* C7: once construction has finished, normally or with an error, no
\* attribute holds a patched value.
C7_PatchesScopedToTracing == ~InConstruction => patched = {}

\* The edits that a sequence of modulize calls is to leave in self.edits.
RECURSIVE EditsOf(_)
EditsOf(log) ==
    IF log = << >> THEN << >>
    ELSE << WrapperModuleEdit(log[1][1], log[1][2]), GraphEdit(log[1][1], log[1][2]) >>
         \o EditsOf(Tail(log))

NoDuplicates(seq) == \A i, j \in DOMAIN seq : seq[i] = seq[j] => i = j

\* C9: no wrapper is ever inserted twice at one path of the meta or the local
\* model: a repeated modulize call adds nothing to the meta model or to
\* self.edits, and an edit list naming an edit twice is not applied.
C9_NoDoubleInsert ==
    /\ \A p \in WrapperPaths :
           /\ meta_model.wrap[p] <= 1
           /\ local_model.wrap[p] <= 1
    /\ \A m \in Modules, n \in ModuleNames :
           Cardinality({ i \in DOMAIN edits : edits[i] = WrapperModuleEdit(m, n) })
               = meta_model.wrap[WrapperPath(m, n)]
    /\ NoDuplicates(modulizeLog)
    /\ InEditorScope => NoDuplicates(run_edits)
    /\ (pc = "idle" /\ result = "AlreadyAppliedError") => local_model = FreshModel

\* C9 witness: a repeated modulize call and a run with a repeated edit have
\* both ended with AlreadyAppliedError.
C9_Witness ==
    /\ pc = "idle"
    /\ modulize_result = "AlreadyAppliedError"
    /\ result = "AlreadyAppliedError"
    /\ Len(run_edits) = 2
    /\ \E p \in WrapperPaths : meta_model.wrap[p] = 1

\* C10: the acquire and release steps of a run are strictly nested: a hook is
\* live on the local model only inside the Editor scope, the input and output
\* hooks are live only while the run's increment hook is, and fn runs only
\* with all of them installed.
C10_StrictlyNested ==
    /\ ~NoHookOnLocalModel => InEditorScope
    /\ (\E p \in DOMAIN inputHooks : inputHooks[p] > 0 \/ outputHooks[p] > 0) =>
           increment_hook = "live"
    /\ pc = "fn" =>
           /\ increment_hook = "live"
           /\ incHooks[graph] > 0
           /\ \A p \in HookedModules(graph) : inputHooks[p] = 1 /\ outputHooks[p] = 1

\* The edit list a run is to apply, from the argument it was called with.
EditsToApply == IF edits_arg.given THEN edits_arg.list ELSE edits

\* C13: from compile until the Editor is exited, the edits applied to the
\* local model are exactly those of the explicit edits argument, or exactly
\* self.edits when the argument is None; no step of a run changes self.edits.
C13_EditsArgumentReplaces ==
    /\ [](InEditorScope =>
            /\ run_edits = EditsToApply
            /\ local_model = ApplyInOrder(EditsToApply, 1, FreshModel).model
            /\ \A p \in WrapperPaths :
                   local_model.wrap[p] =
                       Cardinality({ i \in DOMAIN EditsToApply :
                           /\ EditsToApply[i].kind = "wme"
                           /\ WrapperPath(EditsToApply[i].path, EditsToApply[i].name) = p }))
    /\ [][(pc # "idle" \/ pc' # "idle") => edits' = edits]_vars

\* C13 witness: fn runs in a run called with an explicit empty list on a
\* model whose self.edits is not empty, and no edit is applied.
C13_Witness ==
    /\ pc = "fn"
    /\ edits_arg.given
    /\ edits_arg.list = << >>
    /\ Len(edits) = 4
    /\ local_model = FreshModel

\* C14: a model built from a torch.nn.Module instance is dispatched from
\* construction on, _load_local and _load_meta are never called, and outside
\* of a run its local model has the topology it was passed with, whatever
\* modulize has done to the meta model.
C14_InstanceModelStaysDispatched ==
    custom_model =>
        /\ loadLocalCalls = 0
        /\ loadMetaCalls = 0
        /\ pc \notin { "new", "abstract_init" } => dispatched /\ local_loaded
        /\ pc = "idle" => local_model = FreshModel /\ ModulePaths(local_model) = BasePaths
        /\ pc \in { "idle", "editor_enter" } =>
               \A p \in WrapperPaths : local_model.wrap[p] = 0

\* C14 witness: a model built from an instance has been modulized and run
\* twice.
C14_Witness ==
    /\ custom_model
    /\ pc = "idle"
    /\ runs = 2
    /\ result = "ok"
    /\ Len(modulizeLog) > 0
    /\ meta_model # FreshModel

\* The hx and yh invocations of the current pass, in call order.
RecurrentCalls == SelectSeq(calls, LAMBDA c : c.m \in { "hx", "yh" })

\* The names of the dt, B, C and ssm invocations of the current pass, in
\* call order.
HookableCalls ==
    LET top == SelectSeq(calls, LAMBDA c : c.m \in { "dt", "B", "C", "ssm" })
    IN  [i \in DOMAIN top |-> top[i].m]

\* C11: in SSM.forward the calls of hx and yh alternate, hx(0), yh(0), hx(1),
\* ...; each hx call receives the state the hx call before it returned (zero
\* for the first), each yh call receives the state its hx call returned, and
\* when the loop is over each has been called once per token and last_state
\* is the state the final hx call returned.
C11_RecurrentCallsInOrder ==
    LET rc == RecurrentCalls
        L == Len(xs)
    IN  /\ \A i \in DOMAIN rc :
               IF i % 2 = 1
               THEN /\ rc[i].m = "hx"
                    /\ rc[i].k = (i - 1) \div 2
                    /\ rc[i].in = IF i = 1 THEN 0 ELSE rc[i - 2].out
               ELSE /\ rc[i].m = "yh"
                    /\ rc[i].k = (i - 2) \div 2
                    /\ rc[i].in = rc[i - 1].out
        /\ Len(rc) <= 2 * L
        /\ (fpc = "ssm_return" \/ (fpc = "idle" /\ calls # << >>)) =>
               /\ Len(rc) = 2 * L
               /\ Len(ys) = L
               /\ last_state = rc[2 * L - 1].out
        /\ (fpc = "idle" /\ calls # << >> /\ has_cache) =>
               ssm_state = rc[2 * L - 1].out

\* C11 witness: the loop of SSM.forward is over for a sequence of three
\* tokens with return_last_state true, and hx was handed a non-zero state.
C11_Witness ==
    /\ fpc = "ssm_return"
    /\ Len(xs) = 3
    /\ has_cache
    /\ Len(RecurrentCalls) = 6
    /\ RecurrentCalls[5].in > 0
    /\ last_state = RecurrentCalls[5].out

\* C12: when a forward pass of MambaModuleInterp is over, whatever
\* inference_params it was given, dt, B, C and ssm have each been called
\* exactly once in it, in that order.
C12_HookablesOncePerPass ==
    (fpc = "idle" /\ forwards > 0) => HookableCalls = << "dt", "B", "C", "ssm" >>

====
